---- MODULE Spec2Model ----
(***************************************************************************)
(* Model of scripts/combine.ts: the catalog builder of bsqmods.  One run   *)
(* enumerates the mod metadata files of every game version, validates each *)
(* one, calls processQmod on it, admits or rejects it, persists the hash   *)
(* cache after each file and writes the combined catalog at the end.       *)
(* Runs follow each other on the same disk (hash cache file, downloaded    *)
(* packages, cover files).                                                 *)
(*                                                                         *)
(* Strings are sequences of tokens; the token " " is whitespace.  null and *)
(* undefined are the value Null.                                           *)
(***************************************************************************)
EXTENDS Integers, Sequences, FiniteSets, TLC

(* ---------------------------------------------------------------- bounds *)

\* number of mod metadata files in the mods directory
NumMods == 2

\* number of consecutive runs of the script on the same disk
MaxRuns == 2

(* ------------------------------------------------------- values, strings *)

Null == <<"<null>">>

NoFile == "<absent>"

\* JavaScript truthiness of a string-or-null value
Truthy(s) == s # Null /\ s # <<>>

RECURSIVE TrimStart(_)
TrimStart(s) == IF s # <<>> /\ Head(s) = " " THEN TrimStart(Tail(s)) ELSE s

RECURSIVE TrimEnd(_)
TrimEnd(s) == IF s # <<>> /\ s[Len(s)] = " " THEN TrimEnd(SubSeq(s, 1, Len(s) - 1)) ELSE s

\* String.prototype.trim
Trim(s) == TrimEnd(TrimStart(s))

isNullOrWhitespace(s) == s = Null \/ Trim(s) = <<>>

validModLoaders == {<<"QuestLoader">>, <<"Scotland2">>}

\* the string a number prints as
NumStr(k) == ToString(k)

(* ------------------------------------------------------------ file names *)

modsPath == "mods"
qmodsPath == "qmods"

\* canonical file name of a mod: base directory, game version, id, version, extension
getFilename(id, version, gameVersion, basePath, extension) ==
    <<basePath, gameVersion, id, version, extension>>

\* public url base: no --baseHref argument is given
urlBase == "."

\* `${urlBase}/covers/${path.basename(coverFilename)}` with coverFilename = covers/{hash}.png
CoverUrl(hash) == <<urlBase, "/covers/">> \o hash \o <<".png">>

(* ------------------------------------------------------ package contents *)

\* what a package file can hold, by what the archive inspection does with it
Contents ==
    { "Unreadable",       \* not a zip archive (also a truncated download)
      "NoManifest",       \* a zip with neither bmbfmod.json nor mod.json
      "BadManifest",      \* mod.json is not valid JSON
      "CoverMissing",     \* the manifest names a cover entry the zip lacks
      "NoCoverDeclared",  \* the manifest names no cover
      "CoverEmbedded" }   \* the manifest names a cover entry of the zip

\* sha1 of a file's bytes: one digest per content
computeBufferSha1(content) == <<"sha1", content>>

(* ---------------------------------------------------------------- inputs *)

GameVersions == <<"1.28.0", "1.35.0">>

ModId(k) == <<"mod", NumStr(k)>>
ModVersion(k) == <<"1.0.", NumStr(k)>>

GoodMod(k, download, cover) ==
    [ name |-> <<"Mod">>, id |-> ModId(k), version |-> ModVersion(k),
      download |-> download, modloader |-> <<"Scotland2">>, cover |-> cover,
      hash |-> Null ]

PlainMod(k) == GoodMod(k, <<"a">>, Null)

\* a metadata file: where it is stored (id and version part of its name) and its JSON
ModFile(fileId, fileVersion, json) == [ fileId |-> fileId, fileVersion |-> fileVersion, json |-> json ]

Canonical(json) == ModFile(json.id, json.version, json)

\* download url and cover url of the well-formed metadata files
GoodInputs ==
    { <<<<"a">>, Null>>, <<<<"a">>, <<"c">>>>, <<<<"a", " ">>, Null>>, <<<<"b">>, <<" ", "c">>>> }

\* metadata files that fail one fatal validation each
BadFiles(k) ==
    { ModFile(<<"renamed">>, ModVersion(k), PlainMod(k)),
      ModFile(<<>>, ModVersion(k), [PlainMod(k) EXCEPT !.id = Null]),
      Canonical([PlainMod(k) EXCEPT !.version = <<" ">>]),
      Canonical([PlainMod(k) EXCEPT !.name = <<" ">>]),
      Canonical([PlainMod(k) EXCEPT !.download = <<" ", " ">>]),
      Canonical([PlainMod(k) EXCEPT !.modloader = <<"Forge">>]) }

ModPool(k) == { Canonical(GoodMod(k, in[1], in[2])) : in \in GoodInputs } \cup BadFiles(k)

Directives == {"--skipHashes", "--recheckUrls"}

(* ----------------------------------------------------------------- state *)

VARIABLES
    args,         \* Deno.args: the run-time directives
    tree,         \* per game version (index in GameVersions), its metadata files in readdir order
    hashes,       \* the in-memory hash cache: download url -> hash
    hashesFile,   \* the hash cache file on disk
    qmods,        \* downloaded package files on disk: path -> content, NoFile where absent
    covers,       \* hashes h with a cover file covers/{h}.png on disk
    allMods,      \* the catalog being built: game version index -> admitted records
    allModsFile,  \* the catalog file on disk, Null before the first write
    pc,           \* position of the script
    gv,           \* index of the game version being enumerated
    fi,           \* index of the metadata file within tree[gv]
    mod,          \* the parsed metadata record of the current file (processQmod mutates cover)
    output,       \* the QmodResult being built by processQmod
    qmodHash,     \* processQmod's qmodHash
    coverFile,    \* processQmod's coverFile: TRUE when the zip entry was found
    route,        \* which return of processQmod was taken for the current file
    stats,        \* calls made in this run: downloads, probes, fetches, archives, encodes
    outcomes,     \* this run's finished files: game version, file, QmodResult, route
    run,          \* number of the current run
    past          \* summaries of the earlier runs

vars == << args, tree, hashes, hashesFile, qmods, covers, allMods, allModsFile, pc, gv, fi,
           mod, output, qmodHash, coverFile, route, stats, outcomes, run, past >>

NoMod == [ name |-> Null, id |-> Null, version |-> Null, download |-> Null,
           modloader |-> Null, cover |-> Null, hash |-> Null ]

NewOutput == [ messages |-> <<>>, errors |-> <<>>, warnings |-> <<>>, hash |-> Null ]

NoStats == [ downloads |-> 0, probes |-> 0, fetches |-> 0, archives |-> 0, encodes |-> 0 ]

EmptyMap == [ u \in {} |-> Null ]

Has(map, key) == key \in DOMAIN map

\* hashes[key] of JavaScript: undefined when the key is absent
Lookup(map, key) == IF Has(map, key) THEN map[key] ELSE Null

SetKey(map, key, value) == [ u \in DOMAIN map \cup {key} |-> IF u = key THEN value ELSE map[u] ]

DeleteKey(map, key) == [ u \in DOMAIN map \ {key} |-> map[u] ]

\* every place a package file can be stored
QmodPaths ==
    { getFilename(ModId(k), ModVersion(k), GameVersions[g], qmodsPath, "qmod") :
        k \in 1..NumMods, g \in 1..Len(GameVersions) }

\* the metadata files of the mods directory, game version by game version
Trees ==
    { [ g \in 1..Len(GameVersions) |->
          SelectSeq([ k \in 1..NumMods |-> [ k |-> k, file |-> flat[k] ] ],
                    LAMBDA e : place[e.k] = g) ] :
        flat \in { f \in [1..NumMods -> UNION { ModPool(k) : k \in 1..NumMods }] :
                     \A k \in 1..NumMods : f[k] \in ModPool(k) },
        place \in { p \in [1..NumMods -> 1..Len(GameVersions)] :
                     p[1] = 1 /\ \A k \in 1..(NumMods - 1) : p[k] <= p[k + 1] } }

Init ==
    /\ args \in SUBSET Directives
    /\ tree \in Trees
    /\ hashes = EmptyMap
    /\ hashesFile = EmptyMap
    /\ qmods = [ p \in QmodPaths |-> NoFile ]
    /\ covers = {}
    /\ allMods = EmptyMap
    /\ allModsFile = Null
    /\ pc = "version"
    /\ gv = 1
    /\ fi = 1
    /\ mod = NoMod
    /\ output = NewOutput
    /\ qmodHash = Null
    /\ coverFile = FALSE
    /\ route = "none"
    /\ stats = NoStats
    /\ outcomes = <<>>
    /\ run = 1
    /\ past = <<>>

(* --------------------------------------------------------------- helpers *)

Version == GameVersions[gv]

CurrentFile == tree[gv][fi].file

\* value || ""
OrEmpty(s) == IF Truthy(s) THEN s ELSE <<>>

\* a fatal error: the process exits with a non-zero status, nothing else is touched
exitWithError ==
    /\ pc' = "aborted"
    /\ UNCHANGED << args, tree, hashes, hashesFile, qmods, covers, allMods, allModsFile, gv, fi,
                    mod, output, qmodHash, coverFile, route, stats, outcomes, run, past >>

\* an exception that escapes processQmod ends the script the same way
Throw ==
    /\ pc' = "aborted"
    /\ UNCHANGED << args, tree, hashes, hashesFile, qmods, covers, allMods, allModsFile, gv, fi,
                    mod, output, qmodHash, coverFile, route, stats, outcomes, run, past >>

\* checkUrl(url): the probe's answer is the network's
ProbeAnswers == BOOLEAN

\* what a download that returns no hash leaves at the path: nothing, a truncated file,
\* or a complete package
Leftovers == {NoFile, "Unreadable", "CoverEmbedded"}

\* downloadFile(url, path): the hash of the downloaded bytes, or no hash; the file it leaves
DownloadResults ==
    { [ hash |-> computeBufferSha1(c), file |-> c ] : c \in Contents }
        \cup { [ hash |-> Null, file |-> f ] : f \in Leftovers }

\* fetchAsBuffer(url): bytes, null, or an exception
FetchResults == {"bytes", "null", "throw"}

\* coverFile.async("arraybuffer"): bytes or an exception
EntryResults == {"bytes", "throw"}

\* sharp(...).toFile(...): TRUE when the cover is written, FALSE when it throws
EncodeResults == BOOLEAN

(* --------------------------------------------------------------- actions *)

\* for (const version of gameVersions): the catalog key and the file listing
EnterVersion ==
    /\ pc = "version"
    /\ gv <= Len(GameVersions)
    /\ allMods' = IF Has(allMods, Version) THEN allMods ELSE SetKey(allMods, Version, <<>>)
    /\ fi' = 1
    /\ IF tree[gv] = <<>>
       THEN gv' = gv + 1 /\ pc' = "version"
       ELSE gv' = gv /\ pc' = "validate"
    /\ UNCHANGED << args, tree, hashes, hashesFile, qmods, covers, allModsFile,
                    mod, output, qmodHash, coverFile, route, stats, outcomes, run, past >>

\* the file is stored where its own id and version say
FilenameOk(file, version) ==
    getFilename(file.fileId, file.fileVersion, version, modsPath, "json")
        = getFilename(OrEmpty(file.json.id), OrEmpty(file.json.version), version, modsPath, "json")

RequiredFields == {"name", "id", "version", "download"}

FieldsOk(json) == \A field \in RequiredFields : ~isNullOrWhitespace(json[field])

ModLoaderOk(json) == json.modloader # Null /\ json.modloader \in validModLoaders

ValidUnnamed(file, version) == FieldsOk(file.json) /\ ModLoaderOk(file.json)

ValidAnyLoader(file, version) == FilenameOk(file, version) /\ FieldsOk(file.json)

\* the three fatal validations of the loop body
Valid(file, version) == FilenameOk(file, version) /\ FieldsOk(file.json) /\ ModLoaderOk(file.json)

\* read the metadata file and run the fatal validations
Validate ==
    /\ pc = "validate"
    /\ IF Valid(CurrentFile, Version)
       THEN /\ mod' = CurrentFile.json
            /\ pc' = "lookup"
            /\ UNCHANGED << args, tree, hashes, hashesFile, qmods, covers, allMods, allModsFile,
                            gv, fi, output, qmodHash, coverFile, route, stats, outcomes, run, past >>
       ELSE exitWithError

HitCoverAlways(m, hash) == [m EXCEPT !.cover = CoverUrl(hash)]

\* the cache-hit return: link the cover when covers/{hash}.png exists
HitCover(m, hash) == IF hash \in covers THEN [m EXCEPT !.cover = CoverUrl(hash)] ELSE m

SkipsNever(directives) == FALSE

\* Deno.args.indexOf("--skipHashes") !== -1
Skips(directives) == "--skipHashes" \in directives

\* processQmod up to the cache-hit return
ProcessLookup ==
    /\ pc = "lookup"
    /\ IF Skips(args)
       THEN /\ output' = NewOutput
            /\ route' = "skip"
            /\ pc' = "finish"
            /\ UNCHANGED << hashes, mod, qmodHash, stats >>
       ELSE IF ~Truthy(mod.download)
       THEN Throw
       ELSE LET cached == Lookup(hashes, mod.download)
                probe == "--recheckUrls" \in args /\ cached # Null
            IN  \E alive \in (IF probe THEN ProbeAnswers ELSE {TRUE}) :
                  /\ qmodHash' = IF probe /\ ~alive THEN Null ELSE cached
                  /\ hashes' = IF probe /\ ~alive THEN DeleteKey(hashes, mod.download) ELSE hashes
                  /\ stats' = [stats EXCEPT !.probes = @ + (IF probe THEN 1 ELSE 0)]
                  /\ IF qmodHash' # Null
                     THEN /\ output' = [NewOutput EXCEPT !.hash = qmodHash']
                          /\ mod' = HitCover(mod, cached)
                          /\ route' = "hit"
                          /\ pc' = "finish"
                     ELSE /\ output' = NewOutput
                          /\ mod' = mod
                          /\ route' = "miss"
                          /\ pc' = "fetch"
    /\ UNCHANGED << args, tree, hashesFile, qmods, covers, allMods, allModsFile, gv, fi,
                    coverFile, outcomes, run, past >>

QmodPath == getFilename(mod.id, mod.version, Version, qmodsPath, "qmod")

CacheAlways(map, url, hash) == SetKey(map, url, hash)

\* the hash is cached unless the download returned none
CacheAfterFetch(map, url, hash) == IF hash = Null THEN map ELSE SetKey(map, url, hash)

NotFoundExits == "aborted"

\* where the script goes after "Not found": processQmod returns to the loop body
\* (the process.exit(1) there is commented out)
NotFoundReturns == "finish"

\* processQmod: the local file or the download, the hash, the cache entry
ProcessFetch ==
    /\ pc = "fetch"
    /\ IF ~Truthy(mod.id) \/ ~Truthy(mod.version) \/ ~Truthy(mod.download)
       THEN Throw
       ELSE LET local == qmods[QmodPath] # NoFile
            IN  \E got \in (IF local
                            THEN { [ hash |-> computeBufferSha1(qmods[QmodPath]), file |-> qmods[QmodPath] ] }
                            ELSE DownloadResults) :
                  LET said == [output EXCEPT !.messages = Append(@, mod.download)]
                  IN  /\ qmods' = [qmods EXCEPT ![QmodPath] = got.file]
                      /\ stats' = [stats EXCEPT !.downloads = @ + (IF local THEN 0 ELSE 1)]
                      /\ qmodHash' = got.hash
                      /\ hashes' = CacheAfterFetch(hashes, mod.download, got.hash)
                      /\ IF got.hash = Null
                         THEN /\ output' = [said EXCEPT !.errors = Append(@, <<"Not found">>)]
                              /\ pc' = NotFoundReturns
                         ELSE IF got.file = NoFile
                         THEN /\ output' = [said EXCEPT !.hash = got.hash,
                                                        !.errors = Append(@, <<"Local file not found">>)]
                              /\ pc' = "finish"
                         ELSE /\ output' = [said EXCEPT !.hash = got.hash]
                              /\ pc' = "archive"
                      /\ UNCHANGED << args, tree, hashesFile, covers, allMods, allModsFile, gv, fi,
                                      mod, coverFile, route, outcomes, run, past >>

NoErrors == <<>>

InspectArchiveUnlinking(content) ==
    CASE content = "Unreadable" ->
           [ errors |-> << <<"Reading archive">> >>, unlink |-> TRUE, coverFile |-> FALSE, warnings |-> <<>> ]
      [] content = "NoManifest" ->
           [ errors |-> << <<"No info json">> >>, unlink |-> TRUE, coverFile |-> FALSE, warnings |-> <<>> ]
      [] content = "BadManifest" ->
           [ errors |-> << <<"Processing ", "mod.json">> >>, unlink |-> TRUE, coverFile |-> FALSE, warnings |-> <<>> ]
      [] content = "CoverMissing" ->
           [ errors |-> NoErrors, unlink |-> FALSE, coverFile |-> FALSE,
             warnings |-> << <<"Cover file not found: ", "cover.png">> >> ]
      [] content = "NoCoverDeclared" ->
           [ errors |-> NoErrors, unlink |-> FALSE, coverFile |-> FALSE, warnings |-> <<>> ]
      [] content = "CoverEmbedded" ->
           [ errors |-> NoErrors, unlink |-> FALSE, coverFile |-> TRUE, warnings |-> <<>> ]

\* the two nested try blocks: the error pushed, whether the package is unlinked,
\* whether the cover entry was found, the warning pushed
InspectArchive(content) ==
    CASE content = "Unreadable" ->
           [ errors |-> << <<"Reading archive">> >>, unlink |-> TRUE, coverFile |-> FALSE, warnings |-> <<>> ]
      [] content = "NoManifest" ->
           [ errors |-> << <<"No info json">> >>, unlink |-> FALSE, coverFile |-> FALSE, warnings |-> <<>> ]
      [] content = "BadManifest" ->
           [ errors |-> << <<"Processing ", "mod.json">> >>, unlink |-> FALSE, coverFile |-> FALSE, warnings |-> <<>> ]
      [] content = "CoverMissing" ->
           [ errors |-> NoErrors, unlink |-> FALSE, coverFile |-> FALSE,
             warnings |-> << <<"Cover file not found: ", "cover.png">> >> ]
      [] content = "NoCoverDeclared" ->
           [ errors |-> NoErrors, unlink |-> FALSE, coverFile |-> FALSE, warnings |-> <<>> ]
      [] content = "CoverEmbedded" ->
           [ errors |-> NoErrors, unlink |-> FALSE, coverFile |-> TRUE, warnings |-> <<>> ]

\* processQmod: open the package, find and parse the manifest, find the cover entry
ProcessArchive ==
    /\ pc = "archive"
    /\ LET found == InspectArchive(qmods[QmodPath])
       IN  /\ stats' = [stats EXCEPT !.archives = @ + 1]
           /\ qmods' = IF found.unlink THEN [qmods EXCEPT ![QmodPath] = NoFile] ELSE qmods
           /\ output' = [output EXCEPT !.errors = @ \o found.errors, !.warnings = @ \o found.warnings]
           /\ coverFile' = found.coverFile
           /\ pc' = IF found.errors # NoErrors THEN "finish" ELSE "cover"
    /\ UNCHANGED << args, tree, hashes, hashesFile, covers, allMods, allModsFile, gv, fi,
                    mod, qmodHash, route, outcomes, run, past >>

CoverCleared(m) == [m EXCEPT !.cover = Null]

\* mod.cover is assigned only after the cover file is in place: otherwise the mod
\* keeps the cover it was read with
CoverAsRead(m) == m

\* processQmod: get the cover bytes, write covers/{hash}.png unless it exists, link it
ProcessCover ==
    /\ pc = "cover"
    /\ LET source == IF coverFile THEN "entry" ELSE IF Truthy(mod.cover) THEN "url" ELSE "none"
           answers == IF source = "entry" THEN EntryResults
                      ELSE IF source = "url" THEN FetchResults ELSE {"none"}
           exists == qmodHash \in covers
       IN  \E got \in answers, encoded \in EncodeResults :
             LET fetched == IF got = "throw"
                            THEN [output EXCEPT !.warnings = Append(@, <<"Error fetching cover buffer">>)]
                            ELSE output
                 coverBuffer == got = "bytes"
             IN  /\ (~coverBuffer \/ exists) => encoded
                 /\ stats' = [stats EXCEPT !.fetches = @ + (IF source = "url" THEN 1 ELSE 0),
                                           !.encodes = @ + (IF coverBuffer /\ ~exists THEN 1 ELSE 0)]
                 /\ covers' = IF coverBuffer /\ encoded THEN covers \cup {qmodHash} ELSE covers
                 /\ mod' = IF coverBuffer /\ encoded
                           THEN [mod EXCEPT !.cover = CoverUrl(qmodHash)]
                           ELSE CoverAsRead(mod)
                 /\ output' = IF coverBuffer /\ ~encoded
                              THEN [fetched EXCEPT !.warnings =
                                      @ \o << <<"Error processing cover file">>, <<"sharp: ", "message">> >>]
                              ELSE fetched
    /\ coverFile' = FALSE
    /\ pc' = "finish"
    /\ UNCHANGED << args, tree, hashes, hashesFile, qmods, allMods, allModsFile, gv, fi,
                    qmodHash, route, outcomes, run, past >>

\* (mod[key] || "").trim(), the empty string becoming null
Uniform(value) == LET t == Trim(OrEmpty(value)) IN IF t = <<>> THEN Null ELSE t

modKeys == DOMAIN NoMod

AdmissibleAlways(result) == TRUE

\* the admission gate: no errors
Admissible(result) == Len(result.errors) = 0

\* mods.push(uniformMod)
Push(list, record) == Append(list, record)

\* uniformMod.hash = hashes[uniformMod.download]
AttachHash(uniformMod, map) ==
    IF Truthy(uniformMod.download)
    THEN [uniformMod EXCEPT !.hash = Lookup(map, uniformMod.download)]
    ELSE uniformMod

ForgetAlways(map, uniformMod, result) ==
    IF Truthy(uniformMod.download) THEN DeleteKey(map, uniformMod.download) ELSE map

\* delete hashes[uniformMod.download] when the mod is rejected
Forget(map, uniformMod, result) ==
    IF ~Admissible(result) /\ Truthy(uniformMod.download)
    THEN DeleteKey(map, uniformMod.download)
    ELSE map

PersistNothing(file, map) == file

\* fs.writeFileSync(hashesPath, JSON.stringify(hashes, ...)): the file is rewritten whole
Persist(file, map) == map

\* the rest of the loop body: normalise, admit or reject, persist the hash cache
Finish ==
    /\ pc = "finish"
    /\ LET uniformMod == [ key \in modKeys |-> Uniform(mod[key]) ]
           record == AttachHash(uniformMod, hashes)
       IN  /\ allMods' = IF Admissible(output)
                         THEN [allMods EXCEPT ![Version] = Push(@, record)]
                         ELSE allMods
           /\ hashes' = Forget(hashes, uniformMod, output)
           /\ hashesFile' = Persist(hashesFile, hashes')
           /\ outcomes' = Append(outcomes, [ gv |-> gv, fi |-> fi, download |-> mod.download,
                                             result |-> output, route |-> route,
                                             record |-> record, stats |-> stats ])
    /\ mod' = NoMod
    /\ output' = NewOutput
    /\ qmodHash' = Null
    /\ route' = "none"
    /\ IF fi < Len(tree[gv])
       THEN fi' = fi + 1 /\ gv' = gv /\ pc' = "validate"
       ELSE fi' = 1 /\ gv' = gv + 1 /\ pc' = "version"
    /\ UNCHANGED << args, tree, qmods, covers, allModsFile, coverFile, stats, run, past >>

\* after the loops: write the combined catalog
WriteCatalog ==
    /\ pc = "version"
    /\ gv > Len(GameVersions)
    /\ allModsFile' = allMods
    /\ pc' = "done"
    /\ UNCHANGED << args, tree, hashes, hashesFile, qmods, covers, allMods, gv, fi,
                    mod, output, qmodHash, coverFile, route, stats, outcomes, run, past >>

\* getQmodHashes(): the hash cache as the file holds it
getQmodHashes == hashesFile

\* the script is started again on the same disk, with the given directives and files
Relaunch(nextArgs, nextTree) ==
    /\ pc \in {"done", "aborted"}
    /\ run < MaxRuns
    /\ past' = Append(past, [ written |-> pc = "done", allMods |-> allMods, stats |-> stats,
                              outcomes |-> outcomes,
                              disk |-> [ hashesFile |-> hashesFile, qmods |-> qmods, covers |-> covers ] ])
    /\ run' = run + 1
    /\ hashes' = getQmodHashes
    /\ allMods' = EmptyMap
    /\ pc' = "version"
    /\ gv' = 1
    /\ fi' = 1
    /\ mod' = NoMod
    /\ output' = NewOutput
    /\ qmodHash' = Null
    /\ coverFile' = FALSE
    /\ route' = "none"
    /\ stats' = NoStats
    /\ outcomes' = <<>>
    /\ args' = nextArgs
    /\ tree' = nextTree
    /\ UNCHANGED << hashesFile, qmods, covers, allModsFile >>

\* the next run has the same files and directives
StartRun == Relaunch(args, tree)

\* the next run has the same files and any directives
StartRunWith == \E directives \in SUBSET Directives : Relaunch(directives, tree)

\* the url a mod's package is moved to between two runs
MovedUrl == <<"n">>

\* the next run has the same directives; one metadata file has had its download url
\* changed, its id and version (and so its name) staying as they were
StartRunEdited ==
    \E g \in 1..Len(GameVersions) : \E i \in 1..Len(tree[g]) :
        /\ tree[g][i].file.json.download # MovedUrl
        /\ Relaunch(args, [tree EXCEPT ![g][i].file.json.download = MovedUrl])

Next ==
    \/ EnterVersion
    \/ Validate
    \/ ProcessLookup
    \/ ProcessFetch
    \/ ProcessArchive
    \/ ProcessCover
    \/ Finish
    \/ WriteCatalog
    \/ StartRun

Spec == Init /\ [][Next]_vars

\* the steps of one run of the script, from its first statement to the catalog write
RunStep ==
    \/ EnterVersion
    \/ Validate
    \/ ProcessLookup
    \/ ProcessFetch
    \/ ProcessArchive
    \/ ProcessCover
    \/ Finish
    \/ WriteCatalog

\* consecutive runs over the same files, each with directives of its own
DirectiveSpec == Init /\ [][RunStep \/ StartRunWith]_vars

\* consecutive runs with the same directives, a download url edited between them
EditSpec == Init /\ [][RunStep \/ StartRunEdited]_vars

\* one run of the script: it is sequential and every call it awaits returns, so a
\* run that can take a step takes it
LiveSpec == Init /\ [][RunStep]_vars /\ WF_vars(RunStep)


(* ---------------------------------------------------------------- claims *)

\* the positions of the enumeration: game version index, file index
Positions == { p \in (1..Len(GameVersions)) \X (1..NumMods) : p[2] <= Len(tree[p[1]]) }

NotAfter(p, q) == p[1] < q[1] \/ (p[1] = q[1] /\ p[2] <= q[2])

FileAt(p) == tree[p[1]][p[2]].file

InProcessor == pc \in {"lookup", "fetch", "archive", "cover", "finish"}

Rejected(outcome) == outcome.result.errors # <<>>

RunStartCache == IF run = 1 THEN EmptyMap ELSE past[run - 1].disk.hashesFile

\* C1: at the end of a run that writes the catalog, every record of the catalog has a
\* non-null hash, and that hash is the value the hash cache then holds for the
\* record's download url.  The claim is for every combination of directives; it is
\* stated here for the runs that compute hashes (no --skipHashes), where it fails too.
C1_AdmittedHashIsCached ==
    (pc = "done" /\ "--skipHashes" \notin args) =>
        \A version \in DOMAIN allModsFile : \A n \in 1..Len(allModsFile[version]) :
            LET record == allModsFile[version][n]
            IN  /\ record.hash # Null
                /\ Has(hashes, record.download)
                /\ hashes[record.download] = record.hash

\* C2: once a run has finished, the hash cache, in memory and on disk, has no entry
\* for the download url of any mod whose outcome has errors.
C2_RejectedUrlNotCached ==
    pc = "done" =>
        \A n \in 1..Len(outcomes) :
            Rejected(outcomes[n]) =>
                /\ ~Has(hashes, outcomes[n].download)
                /\ ~Has(hashesFile, outcomes[n].download)

ErrorsAt(g, f) ==
    LET n == CHOOSE n \in 1..Len(outcomes) : outcomes[n].gv = g /\ outcomes[n].fi = f
    IN  outcomes[n].result.errors

AdmittedFiles(g) ==
    SelectSeq([ f \in 1..Len(tree[g]) |-> f ], LAMBDA f : ErrorsAt(g, f) = <<>>)

\* C3: for each game version the written catalog lists exactly the files of that
\* version whose outcome has no errors, once each, in enumeration order.
C3_CatalogIsAdmittedSubsequence ==
    pc = "done" =>
        /\ \A p \in Positions :
             Cardinality({ n \in 1..Len(outcomes) : outcomes[n].gv = p[1] /\ outcomes[n].fi = p[2] }) = 1
        /\ DOMAIN allModsFile = { GameVersions[g] : g \in 1..Len(GameVersions) }
        /\ \A g \in 1..Len(GameVersions) :
             LET list == allModsFile[GameVersions[g]]
                 want == AdmittedFiles(g)
             IN  /\ Len(list) = Len(want)
                 /\ \A n \in 1..Len(want) :
                      /\ list[n].id = tree[g][want[n]].file.json.id
                      /\ list[n].version = tree[g][want[n]].file.json.version

C3_Witness ==
    /\ pc = "done"
    /\ \E n, m \in 1..Len(outcomes) :
         /\ n < m
         /\ outcomes[n].gv = outcomes[m].gv
         /\ Rejected(outcomes[n])
         /\ ~Rejected(outcomes[m])
         /\ outcomes[m].result.warnings # <<>>

Clean(summary) ==
    /\ summary.written
    /\ \A n \in 1..Len(summary.outcomes) : ~Rejected(summary.outcomes[n])

C5_CacheHitFrame ==
    [][ /\ (pc = "lookup" /\ args = {} /\ Has(hashes, mod.download)) =>
              /\ pc' = "finish"
              /\ route' = "hit"
              /\ output'.errors = <<>>
              /\ output'.hash = hashes[mod.download]
              /\ UNCHANGED << hashes, hashesFile, qmods, covers, stats >>
              /\ (mod'.cover = CoverUrl(hashes[mod.download])) <=> (hashes[mod.download] \in covers)
              /\ (hashes[mod.download] \notin covers) => mod' = mod
              /\ [mod' EXCEPT !.cover = mod.cover] = mod
        /\ (pc = "finish" /\ args = {} /\ route = "hit") =>
              /\ UNCHANGED << hashes, qmods, covers, stats >>
              /\ hashesFile' = hashes
              /\ Len(allMods'[Version]) = Len(allMods[Version]) + 1
      ]_vars

C5_Witness ==
    /\ pc = "finish"
    /\ route = "hit"
    /\ args = {}
    /\ mod.cover = CoverUrl(output.hash)
    /\ stats = NoStats

\* C6: when processQmod returns without error and covers/{hash}.png existed before the
\* cover step, no cover is written or encoded and the mod's cover is the link to
\* that file, on the hit path and on the miss path.
C6_ExistingCoverLinked ==
    [][ (/\ pc \in {"lookup", "cover"}
         /\ pc' = "finish"
         /\ route' \in {"hit", "miss"}
         /\ output'.errors = <<>>
         /\ output'.hash # Null
         /\ output'.hash \in covers) =>
              /\ covers' = covers
              /\ stats'.encodes = stats.encodes
              /\ mod'.cover = CoverUrl(output'.hash)
      ]_vars

\* C7: on the miss path with no local package, a download that returns no hash gives
\* the outcome errors ["Not found"] and a null hash and ends processQmod there: no
\* archive opened, no cover fetched or encoded, no cache entry made; the mod is not
\* admitted and the cache, in memory and on disk, has no entry for its url afterwards.
C7_NotFoundStops ==
    [][ /\ (pc = "fetch" /\ qmods[QmodPath] = NoFile /\ qmodHash' = Null) =>
              /\ output'.errors = << <<"Not found">> >>
              /\ output'.hash = Null
              /\ pc' = "finish"
              /\ stats'.archives = stats.archives
              /\ stats'.fetches = stats.fetches
              /\ stats'.encodes = stats.encodes
              /\ covers' = covers
              /\ hashes' = hashes
              /\ ~Has(hashes', mod.download)
        /\ (pc = "finish" /\ route = "miss" /\ qmodHash = Null) =>
              /\ allMods' = allMods
              /\ ~Has(hashes', mod.download)
              /\ ~Has(hashesFile', mod.download)
              /\ ~Has(hashes', Trim(mod.download))
              /\ ~Has(hashesFile', Trim(mod.download))
      ]_vars

C7_Witness ==
    /\ pc = "finish"
    /\ route = "miss"
    /\ qmodHash = Null
    /\ output.errors = << <<"Not found">> >>
    /\ stats.downloads >= 1

ManifestErrors == { <<"No info json">>, <<"Processing ", "mod.json">> }

\* C8: a package file disappears in a step exactly when that step is the archive
\* inspection of that file failing with "Reading archive"; on "No info json" and on
\* "Processing <manifest>" the mod is rejected and its package file stays.
C8_UnlinkOnlyUnreadable ==
    [][ /\ \A p \in QmodPaths :
              (qmods[p] # NoFile /\ qmods'[p] = NoFile) <=>
                  (pc = "archive" /\ p = QmodPath /\ output'.errors = << <<"Reading archive">> >>)
        /\ (pc = "archive" /\ Len(output'.errors) = 1 /\ output'.errors[1] \in ManifestErrors) =>
              /\ pc' = "finish"
              /\ qmods' = qmods
              /\ qmods[QmodPath] # NoFile
        /\ (pc = "finish" /\ Len(output.errors) = 1 /\ output.errors[1] \in ManifestErrors) =>
              /\ allMods' = allMods
              /\ qmods' = qmods
              /\ qmods[QmodPath] # NoFile
      ]_vars

C8_Witness ==
    /\ pc = "finish"
    /\ output.errors = << <<"No info json">> >>
    /\ qmods[QmodPath] = "NoManifest"

PassesChecks(p) ==
    /\ FilenameOk(FileAt(p), GameVersions[p[1]])
    /\ FieldsOk(FileAt(p).json)
    /\ ModLoaderOk(FileAt(p).json)

Processed ==
    { <<outcomes[n].gv, outcomes[n].fi>> : n \in 1..Len(outcomes) }
        \cup (IF InProcessor THEN { <<gv, fi>> } ELSE {})

\* C9: a file that fails a fatal validation, and every file enumerated after it, is
\* never given to processQmod, the run aborts at it, and no run over these files
\* writes the catalog.
C9_FatalStopsRun ==
    /\ \A q \in Processed : \A p \in Positions : NotAfter(p, q) => PassesChecks(p)
    /\ pc = "aborted" => ~PassesChecks(<<gv, fi>>)
    /\ (\E p \in Positions : ~PassesChecks(p)) => (pc # "done" /\ allModsFile = Null)

C9_Witness ==
    /\ pc = "aborted"
    /\ outcomes = <<>>
    /\ ~ModLoaderOk(CurrentFile.json)
    /\ \E p \in Positions : p # <<gv, fi>> /\ NotAfter(<<gv, fi>>, p)

\* C10 as stated: when the run aborts on a misnamed file, no mod of the run has been
\* processed and the hash cache has been neither changed nor persisted in the run.
C10_NothingBeforeAbort ==
    (pc = "aborted" /\ ~FilenameOk(CurrentFile, Version)) =>
        /\ outcomes = <<>>
        /\ stats = NoStats
        /\ hashes = RunStartCache
        /\ hashesFile = RunStartCache

\* C10 amended: a misnamed file is never given to processQmod; when the run aborts on
\* it, exactly the files enumerated before it have been processed, and nothing has
\* been downloaded, probed, opened, fetched or encoded and the hash cache has not
\* changed since the iteration of the file before it ended with its persist.
C10_NothingAfterPreviousFile ==
    /\ InProcessor => FilenameOk(CurrentFile, Version)
    /\ (pc = "aborted" /\ ~FilenameOk(CurrentFile, Version)) =>
          /\ Processed = { p \in Positions : NotAfter(p, <<gv, fi>>) /\ p # <<gv, fi>> }
          /\ stats = (IF outcomes = <<>> THEN NoStats ELSE outcomes[Len(outcomes)].stats)
          /\ hashes = hashesFile
          /\ outcomes = <<>> => hashesFile = RunStartCache
          /\ mod = NoMod
          /\ output = NewOutput

C10_Witness ==
    /\ pc = "aborted"
    /\ ~FilenameOk(CurrentFile, Version)
    /\ Len(outcomes) >= 1
    /\ stats.downloads >= 1
    /\ hashesFile # RunStartCache

\* C11: the hash cache file changes only in the step that ends a file's iteration, and
\* that step writes exactly the in-memory cache of that moment; so whenever no file is
\* in progress (between files, at the end of the run, after a fatal abort) the file
\* equals the in-memory cache, and while a file is in progress the file still holds
\* the cache as the last completed file left it.
C11_PersistAfterEachEntry ==
    /\ [](~InProcessor => hashesFile = hashes)
    /\ [][ /\ (pc = "finish" /\ pc' # "finish") => hashesFile' = hashes'
           /\ ~(pc = "finish" /\ pc' # "finish") => hashesFile' = hashesFile ]_vars

C11_Witness ==
    /\ pc = "archive"
    /\ Len(outcomes) >= 1
    /\ hashesFile # RunStartCache
    /\ hashes # hashesFile
    /\ \E n \in 1..Len(outcomes) : Rejected(outcomes[n])

AllValid == \A p \in Positions : PassesChecks(p)

\* the files of the enumeration before position p
Before(p) == { q \in Positions : NotAfter(q, p) /\ q # p }

\* C12: in a run whose files all pass the fatal validations, nothing ends the run early:
\* the finished files are at every moment the first files of the enumeration, each
\* once and in order, the hash cache file is the in-memory cache after each of them,
\* the run never aborts, and it reaches the catalog write with every file finished.
C12_RecoverableNeverTerminates ==
    /\ [](AllValid =>
            /\ pc # "aborted"
            /\ \A n \in 1..Len(outcomes) :
                  Cardinality(Before(<<outcomes[n].gv, outcomes[n].fi>>)) = n - 1
            /\ ~InProcessor => hashesFile = hashes
            /\ pc = "done" => Len(outcomes) = Cardinality(Positions))
    /\ AllValid ~> (pc = "done")

C12_Witness ==
    /\ pc = "done"
    /\ AllValid
    /\ stats.probes >= 1
    /\ Len(outcomes) = NumMods
    /\ outcomes[1].result.warnings # <<>>
    /\ outcomes[NumMods].result.errors = << <<"Not found">> >>

\* C13: with the skip directive, processQmod returns at once with a null hash and no
\* message, warning or error; it makes no call, opens no archive, writes no package
\* and no cover, and leaves the hash cache and the mod's cover as they are.  So every
\* file of such a run is admitted, and the hash cache, in memory and on disk, stays
\* the one the run loaded.
C13_SkipDoesNothing ==
    /\ [][ (pc = "lookup" /\ "--skipHashes" \in args) =>
             /\ pc' = "finish"
             /\ output' = NewOutput
             /\ mod' = mod
             /\ stats' = stats
             /\ << hashes', hashesFile', qmods', covers' >> = << hashes, hashesFile, qmods, covers >> ]_vars
    /\ []("--skipHashes" \in args =>
            /\ stats = NoStats
            /\ hashes = RunStartCache
            /\ hashesFile = RunStartCache
            /\ run >= 2 => (qmods = past[run - 1].disk.qmods /\ covers = past[run - 1].disk.covers)
            /\ \A n \in 1..Len(outcomes) : outcomes[n].result = NewOutput
            /\ \A g \in 1..Len(GameVersions) :
                  Has(allMods, GameVersions[g]) =>
                     Len(allMods[GameVersions[g]]) =
                        Cardinality({ n \in 1..Len(outcomes) : outcomes[n].gv = g }))

C13_Witness ==
    /\ pc = "done"
    /\ "--skipHashes" \in args
    /\ run = 2
    /\ Len(outcomes) = NumMods
    /\ Cardinality(DOMAIN hashesFile) >= 1
    /\ \E p \in QmodPaths : qmods[p] = "NoManifest"
    /\ \E n \in 1..Len(past[1].outcomes) : Rejected(past[1].outcomes[n])

\* the file whose iteration outcome n records
FileOf(outcome) == FileAt(<<outcome.gv, outcome.fi>>)

\* the outcome has the warning that starts with the given text
Warned(outcome, text) ==
    \E w \in 1..Len(outcome.result.warnings) : outcome.result.warnings[w][1] = text

InCatalog(outcome) ==
    \E i \in 1..Len(allMods[GameVersions[outcome.gv]]) :
        allMods[GameVersions[outcome.gv]][i] = outcome.record

\* C14 as stated: a mod processed without error but with a cover warning (cover entry
\* missing from the archive, cover fetch failed, encoding failed) is admitted and its
\* catalog record has a null cover.
C14_WarnedHasNoCover ==
    \A n \in 1..Len(outcomes) :
        (~Rejected(outcomes[n]) /\ outcomes[n].result.warnings # <<>>) =>
            /\ InCatalog(outcomes[n])
            /\ outcomes[n].record.cover = Null

\* C14 amended: a mod processed without error is admitted, and when no cover was
\* produced for it (reading the cover bytes or encoding them failed, or no cover file
\* exists for its hash after the miss path) its record carries no generated link: the
\* cover is the trimmed cover of the metadata file, null when that is blank.  A record
\* whose cover differs from the metadata's has the link to an existing covers/{hash}.png.
C14_WarnedKeepsOwnCover ==
    \A n \in 1..Len(outcomes) :
        LET outcome == outcomes[n]
            own == Uniform(FileOf(outcome).json.cover)
        IN  ~Rejected(outcome) =>
              /\ InCatalog(outcome)
              /\ (Warned(outcome, "Error fetching cover buffer")
                    \/ Warned(outcome, "Error processing cover file")) => outcome.record.cover = own
              /\ (outcome.route = "miss" /\ outcome.result.hash \notin covers) => outcome.record.cover = own
              /\ outcome.record.cover # own =>
                    /\ outcome.record.cover = CoverUrl(outcome.result.hash)
                    /\ outcome.result.hash \in covers

C14_Witness ==
    \E n \in 1..Len(outcomes) :
        /\ ~Rejected(outcomes[n])
        /\ Warned(outcomes[n], "Cover file not found: ")
        /\ Warned(outcomes[n], "Error processing cover file")
        /\ FileOf(outcomes[n]).json.cover = <<" ", "c">>
        /\ outcomes[n].record.cover = <<"c">>
        /\ InCatalog(outcomes[n])

\* the calls counted when the iteration of the current file began
StatsBefore == IF outcomes = <<>> THEN NoStats ELSE outcomes[Len(outcomes)].stats

\* the current file had a cached hash, was probed, and the probe said the url is dead
ProbedDead == route = "miss" /\ stats.probes > StatsBefore.probes

\* C15: with the recheck directive, when the probe reports the url of a cached hash
\* dead, the hash cache persisted at the end of that file's iteration has no entry for
\* the url, and if the mod is admitted its record has no hash.  The claim covers the
\* mod whose package is still on disk; it is stated here for the iterations that
\* download nothing, so the url is not heard of again after the probe, and for urls
\* without surrounding whitespace.
C15_DeadUrlForgotten ==
    [][ (/\ pc = "finish"
         /\ pc' # "finish"
         /\ ProbedDead
         /\ mod.download = Trim(mod.download)
         /\ stats.downloads = StatsBefore.downloads) =>
            /\ ~Has(hashesFile', mod.download)
            /\ allMods' # allMods => allMods'[Version][Len(allMods'[Version])].hash = Null
      ]_vars

\* the outcomes of all runs so far, each with the calls counted when its iteration began
History ==
    LET Stamped(list) ==
            [ n \in 1..Len(list) |->
                [ outcome |-> list[n],
                  before |-> IF n = 1 THEN NoStats ELSE list[n - 1].stats ] ]
        RECURSIVE Join(_)
        Join(r) == IF r = 0 THEN <<>> ELSE Join(r - 1) \o Stamped(past[r].outcomes)
    IN  Join(Len(past)) \o Stamped(outcomes)

\* url and hash of every download that returned a hash
Downloaded ==
    { <<History[n].outcome.download, History[n].outcome.result.hash>> :
        n \in { m \in 1..Len(History) :
                  /\ History[m].outcome.stats.downloads > History[m].before.downloads
                  /\ History[m].outcome.result.hash # Null } }

NoDownloadFailed ==
    \A n \in 1..Len(History) : History[n].outcome.result.errors # << <<"Not found">> >>

\* C16: every key of the persisted hash cache is a url from which a package was
\* downloaded with success in this or an earlier run, and its value is the hash that
\* download returned.  Stated for the runs in which no download has failed.
C16_CachedMeansDownloaded ==
    NoDownloadFailed =>
        \A url \in DOMAIN hashesFile : <<url, hashesFile[url]>> \in Downloaded

SameFile(a, b) == a.outcome.gv = b.outcome.gv /\ a.outcome.fi = b.outcome.fi

\* entry m of the history is the first time after entry n that the same file took the
\* miss path, the only path that looks at the package file
NextAttempt(n, m) ==
    /\ n < m
    /\ SameFile(History[n], History[m])
    /\ History[m].outcome.route = "miss"
    /\ \A k \in (n + 1)..(m - 1) :
          ~(SameFile(History[n], History[k]) /\ History[k].outcome.route = "miss")

MadeDownload(entry) == entry.outcome.stats.downloads > entry.before.downloads

\* C17: after a download that returned no hash, whatever it left at the package path is
\* not used: the next time the mod takes the miss path it downloads again, instead of
\* hashing and opening the file that is there.
C17_FailedDownloadNotReused ==
    \A n, m \in 1..Len(History) :
        (History[n].outcome.result.errors = << <<"Not found">> >> /\ NextAttempt(n, m)) =>
            MadeDownload(History[m])

\* entry m of the history is the first time after entry n that the same file is processed
NextProcessing(n, m) ==
    /\ n < m
    /\ SameFile(History[n], History[m])
    /\ \A k \in (n + 1)..(m - 1) : ~SameFile(History[n], History[k])

\* C18: when a mod is rejected with "Reading archive", its iteration ends with the
\* package file gone and no entry for its download url in the hash cache, in memory or
\* on disk; and the next time the mod is processed without the skip directive it
\* takes the miss path and downloads the package again.
C18_UnreadableIsRetried ==
    /\ [][ (/\ pc = "finish"
             /\ pc' # "finish"
             /\ output.errors = << <<"Reading archive">> >>) =>
                /\ qmods'[QmodPath] = NoFile
                /\ ~Has(hashes', mod.download)
                /\ ~Has(hashesFile', mod.download) ]_vars
    /\ [](\A n, m \in 1..Len(History) :
            (/\ History[n].outcome.result.errors = << <<"Reading archive">> >>
             /\ NextProcessing(n, m)
             /\ "--skipHashes" \notin args) =>
                /\ History[m].outcome.route = "miss"
                /\ MadeDownload(History[m]))

\* C19: a rejection is not permanent: the later processing of a rejected mod looks at
\* what its url serves now, so that a repaired artifact is admitted.  Stated for the
\* two manifest errors and for the next processing of the mod: the mod is not
\* rejected again without a download, that is on the package file alone, which is
\* then still in place for every later run to be rejected on in the same way.
C19_RejectionIsRetried ==
    \A n, m \in 1..Len(History) :
        (/\ History[n].outcome.result.errors \in { <<e>> : e \in ManifestErrors }
         /\ NextProcessing(n, m)
         /\ Rejected(History[m].outcome)) =>
            MadeDownload(History[m])

\* the key processQmod uses for the current mod, and the key the loop body uses
ProcessorKey == mod.download

BuilderKey == Uniform(mod.download)

\* C20: at the end of every file's iteration that resolved a hash, the key under which
\* processQmod looked up and stored the mod's hash is the key the loop body reads the record's hash from
\* and deletes on error; so the entry of a rejected mod is in the cache neither in
\* memory nor on disk when its iteration has ended.
C20_SameCacheKey ==
    [][ (pc = "finish" /\ pc' # "finish" /\ route # "skip") =>
            /\ output.hash # Null => ProcessorKey = BuilderKey
            /\ Rejected([ result |-> output ]) =>
                  (~Has(hashes', ProcessorKey) /\ ~Has(hashesFile', ProcessorKey))
      ]_vars

====
